---- MODULE Spec2Model ----
(***************************************************************************)
(* Model of neotrellis_monome_circuitpython/monome_serial_device.py:       *)
(* the MonomeEventQueue FIFO pair and the MonomeSerialDevice protocol      *)
(* dispatcher (process_serial), together with the transport byte streams.  *)
(*                                                                         *)
(* Bytes are integers 0..255.  A Python str is a sequence of code points.  *)
(* A Python exception raised by a call is recorded in err.                 *)
(***************************************************************************)
EXTENDS Integers, Sequences, FiniteSets, TLC

VARIABLES
    constructed,   \* TRUE when MonomeSerialDevice.__init__ returned an object
    rows,          \* self._rows
    cols,          \* self._cols
    encoders,      \* self._encoders
    leds,          \* self.leds : list of lists of intensities
    device_id,     \* self.device_id : str, as a sequence of code points
    brightness,    \* self.brightness
    grid_events,   \* self._grid_events : Queue
    arc_events,    \* self._arc_events : Queue
    connected,     \* transport: TRUE while the host holds the port open
    rx,            \* transport: bytes sent by the host, not yet read
    tx,            \* transport: bytes written to the host by the latest step
    err,           \* outcome of the latest step: "ok" or the exception raised
    ret,           \* value returned by the latest step (None when it has none)
    call,          \* name of the latest step
    ident,         \* identifierSent read by the latest step, -1 if none read
    idField,       \* payload of the set-id command that device_id comes
                   \* from, <<>> when it was set otherwise
    gridAdded,     \* history: events passed to add_grid_event, in call order
    gridRead,      \* history: events returned by read_grid_event
    arcAdded,      \* history: events passed to add_arc_*_event
    arcRead        \* history: events returned by read_arc_event

vars == <<constructed, rows, cols, encoders, leds, device_id, brightness,
          grid_events, arc_events, connected, rx, tx, err, ret, call, ident,
          idField, gridAdded, gridRead, arcAdded, arcRead>>

devVars == <<constructed, rows, cols, encoders, leds, device_id, brightness>>
queueVars == <<grid_events, arc_events>>
histVars == <<gridAdded, gridRead, arcAdded, arcRead>>

(***************************************************************************)
(* Bounds of the model.                                                    *)
(***************************************************************************)
MaxEvents == 2      \* add_* calls made directly on one queue
MaxQueued == 1      \* key and encoder commands the host sends in all
MaxKeys == 2        \* the same, for a host that sends nothing else
MaxPending == 1     \* the host sends while fewer than this many bytes wait

(***************************************************************************)
(* Events (monome_serial_device.py, lines 6-22).                           *)
(***************************************************************************)
MonomeGridEvent(x, y, pressed) ==
    [type |-> "grid", x |-> x, y |-> y, pressed |-> pressed]

MonomeArcTurnEvent(index, delta) ==
    [type |-> "turn", index |-> index, delta |-> delta]

MonomeArcPressEvent(index, pressed) ==
    [type |-> "press", index |-> index, pressed |-> pressed]

\* Python return values of the queue methods.
None == [kind |-> "none"]
Some(v) == [kind |-> "value", value |-> v]

(***************************************************************************)
(* queue.Queue as used by MonomeEventQueue: unbounded, put at the back,    *)
(* get from the front.                                                     *)
(***************************************************************************)
QueuePut(q, item) == Append(q, item)

QueueEmpty(q) == Len(q) = 0

QueueGetItem(q) == Head(q)

QueueGetRest(q) == Tail(q)

(***************************************************************************)
(* MonomeEventQueue methods, on the queue they use.                        *)
(***************************************************************************)
add_grid_event_front(q, x, y, pressed) ==
    <<MonomeGridEvent(x, y, pressed)>> \o q

add_grid_event(q, x, y, pressed) == QueuePut(q, MonomeGridEvent(x, y, pressed))

grid_event_available_stale(q) == Len(q) > 1

grid_event_available(q) == ~QueueEmpty(q)

read_grid_event_lifo(q) ==
    IF QueueEmpty(q)
    THEN [ret |-> None, q |-> q]
    ELSE [ret |-> Some(q[Len(q)]), q |-> SubSeq(q, 1, Len(q) - 1)]

read_grid_event(q) ==
    IF QueueEmpty(q)
    THEN [ret |-> None, q |-> q]
    ELSE [ret |-> Some(QueueGetItem(q)), q |-> QueueGetRest(q)]

add_arc_turn_event(q, index, delta) ==
    QueuePut(q, MonomeArcTurnEvent(index, delta))

add_arc_press_event_front(q, index, pressed) ==
    <<MonomeArcPressEvent(index, pressed)>> \o q

add_arc_press_event(q, index, pressed) ==
    QueuePut(q, MonomeArcPressEvent(index, pressed))

arc_event_available(q) == ~QueueEmpty(q)

read_arc_event(q) ==
    IF QueueEmpty(q)
    THEN [ret |-> None, q |-> q]
    ELSE [ret |-> Some(QueueGetItem(q)), q |-> QueueGetRest(q)]

(***************************************************************************)
(* The device as one record, so that a method is a function from the       *)
(* object before the call to the object after it.  hasLeds is FALSE only   *)
(* inside __init__, before line 90 creates the attribute.  buf holds the   *)
(* bytes returned by the latest Serial.read, val the latest int(...).      *)
(***************************************************************************)
Raise(m, e) == [m EXCEPT !.err = e]

Ok(m) == m.err = "ok"

\* self.leds[i][j] = v  (i, j are never negative: they come from range() or
\* from unpacked bytes)
ListSet2(m, i, j, v) ==
    IF ~Ok(m) THEN m
    ELSE IF ~m.hasLeds THEN Raise(m, "AttributeError")
    ELSE IF i >= Len(m.leds) THEN Raise(m, "IndexError")
    ELSE IF j >= Len(m.leds[i + 1]) THEN Raise(m, "IndexError")
    ELSE [m EXCEPT !.leds[i + 1][j + 1] = v]

set_grid_led(m, x, y, level) == ListSet2(m, y, x, level)

clear_grid_led(m, x, y) == set_grid_led(m, x, y, 0)

set_arc_led(m, ring, led, level) == ListSet2(m, ring, led, level)

\* for y in range(rows): for x in range(cols): leds[y][x] = value
\* k enumerates the (y, x) pairs in loop order.
RECURSIVE SetAllGridFrom(_, _, _)
SetAllGridFrom(m, k, value) ==
    IF ~Ok(m) \/ k >= m.rows * m.cols THEN m
    ELSE SetAllGridFrom(ListSet2(m, k \div m.cols, k % m.cols, value),
                        k + 1, value)

set_all_grid_leds(m, value) == SetAllGridFrom(m, 0, value)

\* for n in range(64): leds[ring][n] = 0   (value is not used)
RECURSIVE SetAllArcFrom(_, _, _)
SetAllArcFrom(m, ring, n) ==
    IF ~Ok(m) \/ n >= 64 THEN m
    ELSE SetAllArcFrom(ListSet2(m, ring, n, 0), ring, n + 1)

set_all_arc_leds(m, ring, value) == SetAllArcFrom(m, ring, 0)

(***************************************************************************)
(* MonomeSerialDevice.__init__ / as_grid.  set_all_grid_leds(0) runs on    *)
(* line 86, before line 90 assigns self.leds = [].                         *)
(***************************************************************************)
Blank(R, C) ==
    [rows |-> R, cols |-> C, encoders |-> 0, hasLeds |-> FALSE, leds |-> <<>>,
     device_id |-> <<>>, brightness |-> 15,
     grid_events |-> <<>>, arc_events |-> <<>>,
     rx |-> <<>>, tx |-> <<>>, err |-> "ok", buf |-> <<>>, val |-> 0,
     ident |-> -1, gridAdded |-> <<>>, arcAdded |-> <<>>]

Construct(R, C) ==
    LET m1 == set_all_grid_leds(Blank(R, C), 0)
    IN  IF ~Ok(m1) THEN m1
        ELSE [m1 EXCEPT !.hasLeds = TRUE, !.leds = <<>>,
                        !.device_id = <<>>, !.brightness = 15]

as_grid(R, C) == Construct(R, C)

\* Arguments given to the constructor: the default 0 and a positive size.
RowsArgs == {0, 1}
ColsArgs == {0, 1}

Init ==
    \E R \in RowsArgs, C \in ColsArgs :
        LET m == as_grid(R, C)
        IN  /\ constructed = Ok(m)
            /\ rows = R
            /\ cols = C
            /\ encoders = m.encoders
            /\ leds = m.leds
            /\ device_id = m.device_id
            /\ brightness = m.brightness
            /\ grid_events = m.grid_events
            /\ arc_events = m.arc_events
            /\ connected = TRUE
            /\ rx = <<>>
            /\ tx = <<>>
            /\ err = m.err
            /\ ret = None
            /\ call = "__init__"
            /\ ident = -1
            /\ idField = <<>>
            /\ gridAdded = <<>>
            /\ gridRead = <<>>
            /\ arcAdded = <<>>
            /\ arcRead = <<>>

\* The object in the current state.
Self ==
    [rows |-> rows, cols |-> cols, encoders |-> encoders, hasLeds |-> TRUE,
     leds |-> leds,
     device_id |-> device_id, brightness |-> brightness,
     grid_events |-> grid_events, arc_events |-> arc_events,
     rx |-> rx, tx |-> <<>>, err |-> "ok", buf |-> <<>>, val |-> 0,
     ident |-> -1, gridAdded |-> gridAdded, arcAdded |-> arcAdded]

\* The dispatcher's calls of add_*: the queue method plus the call history.
AddGridEvent(m, x, y, pressed) ==
    IF ~Ok(m) THEN m
    ELSE [m EXCEPT !.grid_events = add_grid_event(@, x, y, pressed),
                   !.gridAdded = Append(@, MonomeGridEvent(x, y, pressed))]

AddArcTurnEvent(m, index, delta) ==
    IF ~Ok(m) THEN m
    ELSE [m EXCEPT !.arc_events = add_arc_turn_event(@, index, delta),
                   !.arcAdded = Append(@, MonomeArcTurnEvent(index, delta))]

AddArcPressEvent(m, index, pressed) ==
    IF ~Ok(m) THEN m
    ELSE [m EXCEPT !.arc_events = add_arc_press_event(@, index, pressed),
                   !.arcAdded = Append(@, MonomeArcPressEvent(index, pressed))]

(***************************************************************************)
(* The transport (usb_cdc.Serial).  read(n) blocks until n bytes have      *)
(* arrived: a call that would block is a call that cannot be completed     *)
(* yet, recorded as "blocked".                                             *)
(***************************************************************************)
SerialRead(m, n) ==
    IF ~Ok(m) THEN m
    ELSE IF Len(m.rx) < n THEN Raise(m, "blocked")
    ELSE [m EXCEPT !.buf = SubSeq(m.rx, 1, n),
                   !.rx = SubSeq(m.rx, n + 1, Len(m.rx))]

SerialWrite(m, b) == IF ~Ok(m) THEN m ELSE [m EXCEPT !.tx = @ \o b]

\* [a, b, ...] = <bytes>: unpacking into n targets
Unpack(m, n) ==
    IF ~Ok(m) THEN m
    ELSE IF Len(m.buf) # n THEN Raise(m, "ValueError")
    ELSE m

\* int(<bytes>): Python parses the bytes as a decimal literal; a single byte
\* is accepted only when it is an ASCII digit.
IntOfBytes(m) ==
    IF ~Ok(m) THEN m
    ELSE IF Len(m.buf) = 1 /\ m.buf[1] \in 48..57
         THEN [m EXCEPT !.val = m.buf[1] - 48]
         ELSE Raise(m, "ValueError")

\* int(Serial.read(data))
ReadInt(m) == IntOfBytes(SerialRead(m, 1))

\* b"\0" * n
Repeat(b, n) == [i \in 1..n |-> b]

(***************************************************************************)
(* UTF-8, as bytes.decode("utf-8") and bytes(s, "utf-8") compute it.       *)
(* Utf8Size is the length of the well-formed sequence at the head of b,    *)
(* 0 when the head is ill-formed.  A failed conversion is <<-1>>.          *)
(***************************************************************************)
IsCont(b, i) == i <= Len(b) /\ b[i] \in 128..191

Utf8Size(b) ==
    LET b1 == b[1]
    IN  IF b1 < 128 THEN 1
        ELSE IF b1 \in 194..223 THEN (IF IsCont(b, 2) THEN 2 ELSE 0)
        ELSE IF b1 = 224
             THEN (IF Len(b) >= 2 /\ b[2] \in 160..191 /\ IsCont(b, 3)
                   THEN 3 ELSE 0)
        ELSE IF b1 \in (225..236) \cup (238..239)
             THEN (IF IsCont(b, 2) /\ IsCont(b, 3) THEN 3 ELSE 0)
        ELSE IF b1 = 237
             THEN (IF Len(b) >= 2 /\ b[2] \in 128..159 /\ IsCont(b, 3)
                   THEN 3 ELSE 0)
        ELSE IF b1 = 240
             THEN (IF Len(b) >= 2 /\ b[2] \in 144..191 /\ IsCont(b, 3)
                      /\ IsCont(b, 4)
                   THEN 4 ELSE 0)
        ELSE IF b1 \in 241..243
             THEN (IF IsCont(b, 2) /\ IsCont(b, 3) /\ IsCont(b, 4)
                   THEN 4 ELSE 0)
        ELSE IF b1 = 244
             THEN (IF Len(b) >= 2 /\ b[2] \in 128..143 /\ IsCont(b, 3)
                      /\ IsCont(b, 4)
                   THEN 4 ELSE 0)
        ELSE 0

Utf8CodePoint(b, n) ==
    IF n = 1 THEN b[1]
    ELSE IF n = 2 THEN (b[1] % 32) * 64 + (b[2] % 64)
    ELSE IF n = 3 THEN (b[1] % 16) * 4096 + (b[2] % 64) * 64 + (b[3] % 64)
    ELSE (b[1] % 8) * 262144 + (b[2] % 64) * 4096 + (b[3] % 64) * 64
         + (b[4] % 64)

RECURSIVE Utf8Decode(_)
Utf8Decode(b) ==
    IF Len(b) = 0 THEN <<>>
    ELSE LET n == Utf8Size(b)
         IN  IF n = 0 THEN <<-1>>
             ELSE LET rest == Utf8Decode(SubSeq(b, n + 1, Len(b)))
                  IN  IF Len(rest) > 0 /\ rest[1] = -1 THEN <<-1>>
                      ELSE <<Utf8CodePoint(b, n)>> \o rest

Utf8EncodeChar(c) ==
    IF c < 128 THEN <<c>>
    ELSE IF c < 2048 THEN <<192 + (c \div 64), 128 + (c % 64)>>
    ELSE IF c \in 55296..57343 THEN <<-1>>
    ELSE IF c < 65536
         THEN <<224 + (c \div 4096), 128 + ((c \div 64) % 64),
                128 + (c % 64)>>
    ELSE <<240 + (c \div 262144), 128 + ((c \div 4096) % 64),
           128 + ((c \div 64) % 64), 128 + (c % 64)>>

RECURSIVE Utf8Encode(_)
Utf8Encode(s) ==
    IF Len(s) = 0 THEN <<>>
    ELSE LET h == Utf8EncodeChar(s[1])
             rest == Utf8Encode(Tail(s))
         IN  IF h[1] = -1 \/ (Len(rest) > 0 /\ rest[1] = -1) THEN <<-1>>
             ELSE h \o rest

(***************************************************************************)
(* Calls of the MonomeEventQueue methods by the input collaborators.       *)
(***************************************************************************)
EventX == {2}
EventY == {3}
ArcIndex == {0}
ArcDelta == {1}

AddGrid ==
    /\ constructed
    /\ call' = "add_grid_event"
    /\ Len(gridAdded) < MaxEvents
    /\ \E x \in EventX, y \in EventY, pressed \in BOOLEAN :
          LET m == AddGridEvent(Self, x, y, pressed)
          IN  /\ grid_events' = m.grid_events
              /\ arc_events' = m.arc_events
              /\ gridAdded' = m.gridAdded
              /\ arcAdded' = m.arcAdded
    /\ ret' = None
    /\ err' = "ok"
    /\ tx' = <<>>
    /\ ident' = -1
    /\ UNCHANGED <<devVars, connected, rx, idField, gridRead, arcRead>>

AddArcTurn ==
    /\ constructed
    /\ call' = "add_arc_turn_event"
    /\ Len(arcAdded) < MaxEvents
    /\ \E index \in ArcIndex, delta \in ArcDelta :
          LET m == AddArcTurnEvent(Self, index, delta)
          IN  /\ grid_events' = m.grid_events
              /\ arc_events' = m.arc_events
              /\ gridAdded' = m.gridAdded
              /\ arcAdded' = m.arcAdded
    /\ ret' = None
    /\ err' = "ok"
    /\ tx' = <<>>
    /\ ident' = -1
    /\ UNCHANGED <<devVars, connected, rx, idField, gridRead, arcRead>>

AddArcPress ==
    /\ constructed
    /\ call' = "add_arc_press_event"
    /\ Len(arcAdded) < MaxEvents
    /\ \E index \in ArcIndex, pressed \in BOOLEAN :
          LET m == AddArcPressEvent(Self, index, pressed)
          IN  /\ grid_events' = m.grid_events
              /\ arc_events' = m.arc_events
              /\ gridAdded' = m.gridAdded
              /\ arcAdded' = m.arcAdded
    /\ ret' = None
    /\ err' = "ok"
    /\ tx' = <<>>
    /\ ident' = -1
    /\ UNCHANGED <<devVars, connected, rx, idField, gridRead, arcRead>>

GridAvailable ==
    /\ constructed
    /\ call' = "grid_event_available"
    /\ ret' = Some(grid_event_available(grid_events))
    /\ err' = "ok"
    /\ tx' = <<>>
    /\ ident' = -1
    /\ UNCHANGED <<devVars, connected, rx, idField, queueVars, histVars>>

ArcAvailable ==
    /\ constructed
    /\ call' = "arc_event_available"
    /\ ret' = Some(arc_event_available(arc_events))
    /\ err' = "ok"
    /\ tx' = <<>>
    /\ ident' = -1
    /\ UNCHANGED <<devVars, connected, rx, idField, queueVars, histVars>>

ReadGrid ==
    /\ constructed
    /\ call' = "read_grid_event"
    /\ LET r == read_grid_event(grid_events)
       IN  /\ ret' = r.ret
           /\ grid_events' = r.q
           /\ gridRead' = IF r.ret = None THEN gridRead
                          ELSE Append(gridRead, r.ret.value)
    /\ err' = "ok"
    /\ tx' = <<>>
    /\ ident' = -1
    /\ UNCHANGED <<devVars, connected, rx, idField, arc_events, gridAdded,
                   arcAdded, arcRead>>

ReadArc ==
    /\ constructed
    /\ call' = "read_arc_event"
    /\ LET r == read_arc_event(arc_events)
       IN  /\ ret' = r.ret
           /\ arc_events' = r.q
           /\ arcRead' = IF r.ret = None THEN arcRead
                         ELSE Append(arcRead, r.ret.value)
    /\ err' = "ok"
    /\ tx' = <<>>
    /\ ident' = -1
    /\ UNCHANGED <<devVars, connected, rx, idField, grid_events, gridAdded,
                   gridRead, arcAdded>>

(***************************************************************************)
(* process_serial: one operator per case of the match statement.           *)
(* x & 0xF8 is x - x % 8; v >> 4 is v \div 16; v & 0x0F is v % 16.         *)
(***************************************************************************)
vari_mono_thresh == 0

Mask_F8(v) == v - (v % 8)

Clamp(value) == IF value > vari_mono_thresh THEN value ELSE 0

\* bytes([...]): every element must be in range(256)
BytesOf(m, list) ==
    IF ~Ok(m) THEN m
    ELSE IF \E i \in 1..Len(list) : list[i] \notin 0..255
         THEN Raise(m, "ValueError")
         ELSE [m EXCEPT !.buf = list]

\* 0x00  /sys/query
Case00(m, num_quads) ==
    LET m1 == BytesOf(m, <<0, 1, num_quads, 0, 2, num_quads>>)
    IN  IF ~Ok(m1) THEN m1 ELSE SerialWrite(m1, m1.buf)

\* 0x01  sys/id
Case01_pad64(m) ==
    LET bytestring == Utf8Encode(m.device_id)
    IN  IF Len(bytestring) > 0 /\ bytestring[1] = -1
        THEN Raise(m, "UnicodeEncodeError")
        ELSE SerialWrite(m, <<1>> \o bytestring
                            \o Repeat(0, 64 - Len(bytestring)))

Case01(m) ==
    LET bytestring == Utf8Encode(m.device_id)
    IN  IF Len(bytestring) > 0 /\ bytestring[1] = -1
        THEN Raise(m, "UnicodeEncodeError")
        ELSE SerialWrite(m, <<1>> \o bytestring
                            \o Repeat(0, 32 - Len(bytestring)))

\* 0x02  system / write ID
Case02(m) ==
    LET m1 == SerialRead(m, 32)
    IN  IF ~Ok(m1) THEN m1
        ELSE LET s == Utf8Decode(m1.buf)
             IN  IF Len(s) > 0 /\ s[1] = -1
                 THEN Raise(m1, "UnicodeDecodeError")
                 ELSE [m1 EXCEPT !.device_id = s]

\* 0x03  system / request grid offset
Case03(m) == SerialWrite(m, <<2, 1, 0, 0>>)

\* 0x04  system / set grid offset
Case04(m) == Unpack(SerialRead(m, 3), 3)

\* 0x05  system / request grid size
Case05(m) ==
    LET m1 == BytesOf(m, <<3, m.cols, m.rows>>)
    IN  IF ~Ok(m1) THEN m1 ELSE SerialWrite(m1, m1.buf)

\* 0x06  system / set grid size
Case06_resize(m) ==
    LET m1 == Unpack(SerialRead(m, 2), 2)
    IN  IF ~Ok(m1) THEN m1
        ELSE [m1 EXCEPT !.cols = m1.buf[1], !.rows = m1.buf[2]]

Case06(m) == Unpack(SerialRead(m, 2), 2)

\* 0x08  system / set ADDR
Case08(m) == SerialRead(SerialRead(m, 1), 1)

\* 0x0F  system / query firmware version
Case0F(m) ==
    LET bytestring == Utf8Encode(<<>>)
    IN  SerialWrite(m, bytestring \o Repeat(0, 8 - Len(bytestring)))

\* 0x10  led-grid / led off
Case10(m) ==
    LET m1 == Unpack(SerialRead(m, 2), 2)
    IN  IF ~Ok(m1) THEN m1 ELSE clear_grid_led(m1, m1.buf[1], m1.buf[2])

\* 0x11  led-grid / led on
Case11(m) ==
    LET m1 == Unpack(SerialRead(m, 2), 2)
    IN  IF ~Ok(m1) THEN m1
        ELSE set_grid_led(m1, m1.buf[1], m1.buf[2], m1.brightness)

\* 0x12  led-grid / all off
Case12_dark(m) == [set_all_grid_leds(m, 0) EXCEPT !.brightness = 0]

Case12(m) == set_all_grid_leds(m, 0)

\* 0x13  led-grid / all on
Case13(m) == set_all_grid_leds(m, m.brightness)

\* 0x14  led-grid / map: inner loop, for x in range(8)
RECURSIVE MapBits(_, _, _, _, _, _)
MapBits(m, read_x, read_y, y, intensity, x) ==
    IF ~Ok(m) \/ x >= 8 THEN m
    ELSE MapBits(IF (intensity \div (2 ^ x)) % 2 = 1
                 THEN set_grid_led(m, read_x + x, read_y + y, m.brightness)
                 ELSE clear_grid_led(m, read_x + x, read_y + y),
                 read_x, read_y, y, intensity, x + 1)

\* 0x14  outer loop, for y in range(8)
RECURSIVE MapRows(_, _, _, _)
MapRows(m, read_x, read_y, y) ==
    IF ~Ok(m) \/ y >= 8 THEN m
    ELSE LET m1 == ReadInt(m)
         IN  IF ~Ok(m1) THEN m1
             ELSE MapRows(MapBits(m1, read_x, read_y, y, m1.val, 0),
                          read_x, read_y, y + 1)

Case14(m) ==
    LET m1 == Unpack(SerialRead(m, 2), 2)
    IN  IF ~Ok(m1) THEN m1
        ELSE MapRows(m1, Mask_F8(m1.buf[1]), Mask_F8(m1.buf[2]), 0)

\* 0x15  led-grid / row
RECURSIVE RowBits(_, _, _, _, _)
RowBits(m, read_x, read_y, intensity, x) ==
    IF ~Ok(m) \/ x >= 8 THEN m
    ELSE RowBits(IF (intensity \div (2 ^ x)) % 2 = 1
                 THEN set_grid_led(m, read_x + x, read_y, 15)
                 ELSE clear_grid_led(m, read_x + x, read_y),
                 read_x, read_y, intensity, x + 1)

Case15(m) ==
    LET m1 == Unpack(SerialRead(m, 3), 3)
    IN  IF ~Ok(m1) THEN m1
        ELSE RowBits(m1, Mask_F8(m1.buf[1]), m1.buf[2], m1.buf[3], 0)

\* 0x16  led-grid / col
RECURSIVE ColBits(_, _, _, _, _)
ColBits(m, read_x, read_y, intensity, y) ==
    IF ~Ok(m) \/ y >= 8 THEN m
    ELSE ColBits(IF (intensity \div (2 ^ y)) % 2 = 1
                 THEN set_grid_led(m, read_x, read_y + y, 15)
                 ELSE clear_grid_led(m, read_x, read_y + y),
                 read_x, read_y, intensity, y + 1)

Case16(m) ==
    LET m1 == Unpack(SerialRead(m, 3), 3)
    IN  IF ~Ok(m1) THEN m1
        ELSE ColBits(m1, m1.buf[1], Mask_F8(m1.buf[2]), m1.buf[3], 0)

\* 0x17  led-grid / intensity
Case17(m) ==
    LET m1 == ReadInt(m)
    IN  IF ~Ok(m1) THEN m1 ELSE [m1 EXCEPT !.brightness = m1.val]

\* 0x18  led level set
Case18(m) ==
    LET m1 == Unpack(SerialRead(m, 3), 3)
    IN  IF ~Ok(m1) THEN m1
        ELSE set_grid_led(m1, m1.buf[1], m1.buf[2], m1.buf[3])

\* 0x19  led level all
Case19(m) ==
    LET m1 == ReadInt(m)
    IN  IF ~Ok(m1) THEN m1 ELSE set_all_grid_leds(m1, m1.val)

\* 0x1A  led level map: the loop over y, x with the counter z = 8 * y + x;
\* m.val keeps the variable intensity between iterations
RECURSIVE LevelMapFrom(_, _, _, _)
LevelMapFrom(m, read_x, read_y, z) ==
    IF ~Ok(m) \/ z >= 64 THEN m
    ELSE LET x == z % 8
             y == z \div 8
         IN  IF z % 2 = 0
             THEN LET m1 == ReadInt(m)
                  IN  IF ~Ok(m1) THEN m1
                      ELSE LevelMapFrom(
                             set_grid_led(m1, read_x + x, read_y + y,
                                          Clamp((m1.val \div 16) % 16)),
                             read_x, read_y, z + 1)
             ELSE LevelMapFrom(
                    set_grid_led(m, read_x + x, read_y + y,
                                 Clamp(m.val % 16)),
                    read_x, read_y, z + 1)

\* [read_x, read_y] = Serial.read(data, 3): three bytes into two targets
Case1A(m) ==
    LET m1 == Unpack(SerialRead(m, 3), 2)
    IN  IF ~Ok(m1) THEN m1
        ELSE LevelMapFrom(m1, Mask_F8(m1.buf[1]), Mask_F8(m1.buf[2]), 0)

\* 0x1B  led level row
RECURSIVE LevelRowFrom(_, _, _, _)
LevelRowFrom(m, read_x, read_y, x) ==
    IF ~Ok(m) \/ x >= 8 THEN m
    ELSE IF x % 2 = 0
         THEN LET m1 == ReadInt(m)
              IN  IF ~Ok(m1) THEN m1
                  ELSE LevelRowFrom(
                         set_grid_led(m1, read_x + x, read_y,
                                      Clamp((m1.val \div 16) % 16)),
                         read_x, read_y, x + 1)
         ELSE LevelRowFrom(
                set_grid_led(m, read_x + x, read_y, Clamp(m.val % 16)),
                read_x, read_y, x + 1)

Case1B(m) ==
    LET m1 == Unpack(SerialRead(m, 3), 2)
    IN  IF ~Ok(m1) THEN m1
        ELSE LevelRowFrom(m1, Mask_F8(m1.buf[1]), Mask_F8(m1.buf[2]), 0)

\* 0x1C  led level col
RECURSIVE LevelColFrom(_, _, _, _)
LevelColFrom(m, read_x, read_y, y) ==
    IF ~Ok(m) \/ y >= 8 THEN m
    ELSE IF y % 2 = 0
         THEN LET m1 == ReadInt(m)
              IN  IF ~Ok(m1) THEN m1
                  ELSE LevelColFrom(
                         set_grid_led(m1, read_x, read_y + y,
                                      Clamp((m1.val \div 16) % 16)),
                         read_x, read_y, y + 1)
         ELSE LevelColFrom(
                set_grid_led(m, read_x, read_y + y, Clamp(m.val % 16)),
                read_x, read_y, y + 1)

Case1C(m) ==
    LET m1 == Unpack(SerialRead(m, 3), 2)
    IN  IF ~Ok(m1) THEN m1
        ELSE LevelColFrom(m1, Mask_F8(m1.buf[1]), Mask_F8(m1.buf[2]), 0)

\* 0x20 / 0x21  grid key up / down
Case20(m) ==
    LET m1 == Unpack(SerialRead(m, 2), 2)
    IN  IF ~Ok(m1) THEN m1
        ELSE AddGridEvent(m1, m1.buf[1], m1.buf[2], FALSE)

Case21(m) ==
    LET m1 == Unpack(SerialRead(m, 2), 2)
    IN  IF ~Ok(m1) THEN m1
        ELSE AddGridEvent(m1, m1.buf[1], m1.buf[2], TRUE)

\* 0x50  arc turn
Case50(m) ==
    LET m1 == Unpack(SerialRead(m, 2), 2)
    IN  IF ~Ok(m1) THEN m1
        ELSE AddArcTurnEvent(m1, m1.buf[1], m1.buf[2])

\* 0x51 / 0x52  arc key up / down
Case51(m) ==
    LET m1 == Unpack(SerialRead(m, 1), 1)
    IN  IF ~Ok(m1) THEN m1 ELSE AddArcPressEvent(m1, m1.buf[1], FALSE)

Case52(m) ==
    LET m1 == Unpack(SerialRead(m, 1), 1)
    IN  IF ~Ok(m1) THEN m1 ELSE AddArcPressEvent(m1, m1.buf[1], TRUE)

\* 0x80 / 0x81  tilt: the case body is a string literal
Case80_reply(m) == SerialWrite(m, <<1, 0>>)

Case80(m) == m

Case81(m) == m

\* 0x90  arc led set
Case90(m) ==
    LET m1 == Unpack(SerialRead(m, 3), 3)
    IN  IF ~Ok(m1) THEN m1
        ELSE set_arc_led(m1, m1.buf[1], m1.buf[2], m1.buf[3])

\* 0x91  arc led all
Case91(m) ==
    LET m1 == Unpack(SerialRead(m, 2), 2)
    IN  IF ~Ok(m1) THEN m1
        ELSE set_all_arc_leds(m1, m1.buf[1], m1.buf[2])

\* 0x92  arc led map: for y in range(64)
RECURSIVE ArcMapFrom(_, _, _)
ArcMapFrom(m, read_n, y) ==
    IF ~Ok(m) \/ y >= 64 THEN m
    ELSE IF y % 2 = 0
         THEN LET m1 == ReadInt(m)
              IN  IF ~Ok(m1) THEN m1
                  ELSE ArcMapFrom(
                         set_arc_led(m1, read_n, y,
                                     Clamp((m1.val \div 16) % 16)),
                         read_n, y + 1)
         ELSE ArcMapFrom(set_arc_led(m, read_n, y, Clamp(m.val % 16)),
                         read_n, y + 1)

Case92(m) ==
    LET m1 == ReadInt(m)
    IN  IF ~Ok(m1) THEN m1 ELSE ArcMapFrom(m1, m1.val, 0)

\* 0x93  arc led range: for y in range(from, to): set_arc_led(n, y, a)
RECURSIVE ArcRange(_, _, _, _, _)
ArcRange(m, read_n, read_a, from, to) ==
    IF ~Ok(m) \/ from >= to THEN m
    ELSE ArcRange(set_arc_led(m, read_n, from, read_a),
                  read_n, read_a, from + 1, to)

Case93(m) ==
    LET m1 == Unpack(SerialRead(m, 4), 4)
    IN  IF ~Ok(m1) THEN m1
        ELSE LET read_n == m1.buf[1]
                 read_x == m1.buf[2]
                 read_y == m1.buf[3]
                 read_a == m1.buf[4]
             IN  IF read_x < read_y
                 THEN ArcRange(m1, read_n, read_a, read_x, read_y)
                 ELSE ArcRange(ArcRange(m1, read_n, read_a, read_x, 64),
                               read_n, read_a, 0, read_y)

\* match identifierSent: ...   (no case matches: nothing is executed)
Dispatch(m, op, num_quads) ==
    CASE op = 0 -> Case00(m, num_quads)
      [] op = 1 -> Case01(m)
      [] op = 2 -> Case02(m)
      [] op = 3 -> Case03(m)
      [] op = 4 -> Case04(m)
      [] op = 5 -> Case05(m)
      [] op = 6 -> Case06(m)
      [] op = 8 -> Case08(m)
      [] op = 15 -> Case0F(m)
      [] op = 16 -> Case10(m)
      [] op = 17 -> Case11(m)
      [] op = 18 -> Case12(m)
      [] op = 19 -> Case13(m)
      [] op = 20 -> Case14(m)
      [] op = 21 -> Case15(m)
      [] op = 22 -> Case16(m)
      [] op = 23 -> Case17(m)
      [] op = 24 -> Case18(m)
      [] op = 25 -> Case19(m)
      [] op = 26 -> Case1A(m)
      [] op = 27 -> Case1B(m)
      [] op = 28 -> Case1C(m)
      [] op = 32 -> Case20(m)
      [] op = 33 -> Case21(m)
      [] op = 80 -> Case50(m)
      [] op = 81 -> Case51(m)
      [] op = 82 -> Case52(m)
      [] op = 128 -> Case80(m)
      [] op = 129 -> Case81(m)
      [] op = 144 -> Case90(m)
      [] op = 145 -> Case91(m)
      [] op = 146 -> Case92(m)
      [] op = 147 -> Case93(m)
      [] OTHER -> m

\* lines 139-153: the locals, then the opcode read.  int(cols / rows)
\* divides by self._rows before any byte is read.
process_serial(m) ==
    IF m.rows = 0 THEN Raise(m, "ZeroDivisionError")
    ELSE LET num_quads == m.cols \div m.rows
             m1 == SerialRead(m, 1)
         IN  IF ~Ok(m1) THEN m1
             ELSE Dispatch([m1 EXCEPT !.ident = m1.buf[1]], m1.buf[1],
                           num_quads)

\* Serial is the class imported from usb_cdc: Serial.connected read on the
\* class is the property object itself, which Python treats as true, whether
\* or not the port (the instance, data) is connected.
SerialConnected == TRUE

poll(m) == IF SerialConnected THEN process_serial(m) ELSE m

(***************************************************************************)
(* The host.  It sends commands framed as the protocol frames them (the    *)
(* opcode, then the payload of the length the command table lists), and    *)
(* opcodes that have no entry in the table.                                *)
(***************************************************************************)
\* The opcodes that have a case in process_serial, the tilt ones apart.
TableOpcodes ==
    {0, 1, 2, 3, 4, 5, 6, 8, 15, 16, 17, 18, 19, 20, 21, 22, 23, 24, 25, 26,
     27, 28, 32, 33, 80, 81, 82, 144, 145, 146, 147}

TiltOpcodes == {128, 129}

\* "mydevice", "neo-monome" (code.py line 19)
MyDevice == <<109, 121, 100, 101, 118, 105, 99, 101>>
NeoMonome == <<110, 101, 111, 45, 109, 111, 110, 111, 109, 101>>

IdField(id) == id \o Repeat(0, 32 - Len(id))

\* 32-byte id fields: "mydevice", a two-byte character filling the field
\* to its last byte, and a byte that is not UTF-8
IdFields ==
    {IdField(MyDevice), Repeat(97, 30) \o <<195, 169>>, IdField(<<255>>)}

\* The payloads the host sends with each opcode, of the table's length.
Payloads(op) ==
    CASE op \in {0, 1, 3, 5, 15, 18, 19} -> {<<>>}
      [] op = 2 -> IdFields
      [] op = 4 -> {<<1, 2, 3>>}
      [] op \in {6, 8, 16, 17} -> {<<2, 3>>}
      [] op = 20 -> {<<10, 5>> \o Repeat(53, 8)}
      [] op \in {21, 22} -> {<<2, 3, 255>>}
      [] op \in {23, 25} -> {<<53>>, <<255>>}
      [] op = 24 -> {<<2, 3, 200>>}
      [] op = 26 -> {<<10, 5>> \o Repeat(171, 32)}
      [] op \in {27, 28} -> {<<2, 3>> \o Repeat(171, 4)}
      [] op \in {32, 33} -> {<<2, 3>>}
      [] op = 80 -> {<<0, 1>>}
      [] op \in {81, 82} -> {<<0>>}
      [] op = 144 -> {<<0, 0, 200>>}
      [] op = 145 -> {<<0, 5>>}
      [] op = 146 -> {<<48>> \o Repeat(171, 32)}
      [] op = 147 -> {<<0, 60, 4, 5>>, <<0, 64, 0, 200>>}

UnknownOpcodes == {7}

\* The opcodes of the key and encoder events (0x20, 0x21, 0x50, 0x51, 0x52).
KeyOpcodes == {32, 33, 80, 81, 82}

HostCmds ==
    UNION {{<<op>> \o p : p \in Payloads(op)} : op \in TableOpcodes}
    \cup {<<op>> : op \in TiltOpcodes \cup UnknownOpcodes}

KeyCmds == {c \in HostCmds : c[1] \in KeyOpcodes}

\* Key and encoder commands sent so far: the ones dispatched and the ones
\* still waiting in the stream.
KeysSent ==
    Len(gridAdded) + Len(arcAdded)
    + Cardinality({i \in 1..Len(rx) : rx[i] \in KeyOpcodes})

HostSend ==
    /\ constructed
    /\ Len(rx) < MaxPending
    /\ \E c \in HostCmds :
          /\ c \in KeyCmds => KeysSent < MaxQueued
          /\ rx' = rx \o c
    /\ call' = "host_send"
    /\ err' = "ok"
    /\ ret' = None
    /\ tx' = <<>>
    /\ ident' = -1
    /\ UNCHANGED <<devVars, connected, queueVars, histVars, idField>>

\* A host that sends key and encoder commands only.
HostSendKey ==
    /\ constructed
    /\ Len(rx) < MaxPending
    /\ KeysSent < MaxKeys
    /\ \E c \in KeyCmds : rx' = rx \o c
    /\ call' = "host_send"
    /\ err' = "ok"
    /\ ret' = None
    /\ tx' = <<>>
    /\ ident' = -1
    /\ UNCHANGED <<devVars, connected, queueVars, histVars, idField>>

\* The host opens and closes the port (DTR).  Bytes already sent stay in the
\* receive buffer.
HostConnect ==
    /\ constructed
    /\ ~connected
    /\ connected' = TRUE
    /\ call' = "host_connect"
    /\ err' = "ok"
    /\ ret' = None
    /\ tx' = <<>>
    /\ ident' = -1
    /\ UNCHANGED <<devVars, queueVars, histVars, idField, rx>>

HostDisconnect ==
    /\ constructed
    /\ connected
    /\ connected' = FALSE
    /\ call' = "host_disconnect"
    /\ err' = "ok"
    /\ ret' = None
    /\ tx' = <<>>
    /\ ident' = -1
    /\ UNCHANGED <<devVars, queueVars, histVars, idField, rx>>

(***************************************************************************)
(* code.py line 121: mdp.device_id = device_id (a public attribute).       *)
(***************************************************************************)
DeviceIds == {NeoMonome, Repeat(97, 33)}

AssignDeviceId ==
    /\ constructed
    /\ \E id \in DeviceIds : device_id' = id
    /\ idField' = <<>>
    /\ call' = "device_id"
    /\ err' = "ok"
    /\ ret' = None
    /\ tx' = <<>>
    /\ ident' = -1
    /\ UNCHANGED <<constructed, rows, cols, encoders, leds, brightness,
                   queueVars, histVars, connected, rx>>

(***************************************************************************)
(* One call of poll() by the main loop (code.py lines 126 and 148).  The   *)
(* call is taken when the reads it makes can all be served.                *)
(***************************************************************************)
Poll ==
    /\ constructed
    /\ LET m == poll(Self)
       IN  /\ m.err # "blocked"
           /\ rows' = m.rows
           /\ cols' = m.cols
           /\ encoders' = m.encoders
           /\ leds' = m.leds
           /\ device_id' = m.device_id
           /\ brightness' = m.brightness
           /\ grid_events' = m.grid_events
           /\ arc_events' = m.arc_events
           /\ gridAdded' = m.gridAdded
           /\ arcAdded' = m.arcAdded
           /\ rx' = m.rx
           /\ tx' = m.tx
           /\ err' = m.err
           /\ ident' = m.ident
           /\ idField' = IF m.ident = 2 /\ Ok(m) THEN m.buf ELSE idField
    /\ call' = "poll"
    /\ ret' = None
    /\ UNCHANGED <<constructed, connected, gridRead, arcRead>>

(***************************************************************************)
(* Spec: the device driven by the host and the main loop.  The dispatcher  *)
(* reaches the queues only through add_*; the calls the input              *)
(* collaborators make on the queues themselves are the actions of          *)
(* SpecQueue, which touch nothing but the queues.                          *)
(***************************************************************************)
Next ==
    \/ HostSend
    \/ AssignDeviceId
    \/ Poll

Spec == Init /\ [][Next]_vars

NextQueue ==
    \/ AddGrid
    \/ AddArcTurn
    \/ AddArcPress
    \/ GridAvailable
    \/ ArcAvailable
    \/ ReadGrid
    \/ ReadArc

SpecQueue == Init /\ [][NextQueue]_vars

\* The device driven by a host that sends key and encoder commands only,
\* with the application reading the events.
NextKeys ==
    \/ HostSendKey
    \/ Poll
    \/ ReadGrid
    \/ ReadArc

SpecKeys == Init /\ [][NextKeys]_vars

\* The device driven by a host that also opens and closes the port.
NextLink ==
    \/ HostSend
    \/ HostConnect
    \/ HostDisconnect
    \/ Poll

SpecLink == Init /\ [][NextLink]_vars

(***************************************************************************)
(* Properties.                                                             *)
(***************************************************************************)
IsPrefix(a, b) == Len(a) <= Len(b) /\ SubSeq(b, 1, Len(a)) = a

\* A step in which process_serial read an opcode byte (only poll shortens rx).
OpcodeRead == call' = "poll" /\ ident' # -1

AllLeds == UNION {{leds[y][x] : x \in 1..Len(leds[y])} : y \in 1..Len(leds)}

\* C1: the events returned by the reads of a queue are a prefix of the events
\* added to that queue, in the same order, and the events still queued are
\* exactly the remaining ones: nothing is duplicated, dropped or reordered.
C1_ReadsArePrefixOfAdds ==
    /\ IsPrefix(gridRead, gridAdded)
    /\ IsPrefix(arcRead, arcAdded)
    /\ gridRead \o grid_events = gridAdded

\* C1 witness: GridEvent(2,3,true) then GridEvent(2,3,false) were added, two
\* reads returned them in that order and a third read returned none.
C1_Witness ==
    /\ gridRead = <<MonomeGridEvent(2, 3, TRUE), MonomeGridEvent(2, 3, FALSE)>>
    /\ gridAdded = gridRead
    /\ call = "read_grid_event"
    /\ ret = None

\* C2: a read on an empty queue returns none without error and leaves both
\* queues unchanged; the available predicates answer whether the queue is
\* non-empty and change no queue.
C2_EmptyReadAndAvailable ==
    [][/\ (call' = "read_grid_event" /\ Len(grid_events) = 0)
            => (ret' = None /\ err' = "ok" /\ UNCHANGED queueVars)
       /\ (call' = "read_arc_event" /\ Len(arc_events) = 0)
            => (ret' = None /\ err' = "ok" /\ UNCHANGED queueVars)
       /\ call' = "grid_event_available"
            => (ret' = Some(Len(grid_events) > 0) /\ UNCHANGED queueVars)
       /\ call' = "arc_event_available"
            => (ret' = Some(Len(arc_events) > 0) /\ UNCHANGED queueVars)]_vars

\* C2 witness: read_grid_event returned none on an empty grid queue while the
\* arc queue held an event.
C2_Witness ==
    /\ call = "read_grid_event"
    /\ ret = None
    /\ Len(grid_events) = 0
    /\ Len(arc_events) > 0

\* C3: operations on the grid queue leave the arc queue unchanged and
\* operations on the arc queue leave the grid queue unchanged; turn and press
\* events share the arc queue, which holds the unread ones in insertion order.
C3_QueuesIndependent ==
    [][/\ call' \in {"add_grid_event", "read_grid_event",
                     "grid_event_available"}
            => arc_events' = arc_events
       /\ call' \in {"add_arc_turn_event", "add_arc_press_event",
                     "read_arc_event", "arc_event_available"}
            => grid_events' = grid_events
       /\ arcRead' \o arc_events' = arcAdded']_vars

\* C3 witness: a turn was read, then a press is queued behind it, while the
\* grid queue holds an event of its own.
C3_Witness ==
    /\ arcRead = <<MonomeArcTurnEvent(0, 1)>>
    /\ arc_events = <<MonomeArcPressEvent(0, TRUE)>>
    /\ Len(grid_events) > 0

\* C4 (as claimed): every stored intensity and the brightness are in 0..15,
\* and the commands that carry an intensity (0x17, 0x18, 0x19, 0x90, 0x93) are
\* accepted whatever the byte: values above 15 are masked, not rejected.
C4_IntensitiesMasked ==
    /\ brightness \in 0..15
    /\ AllLeds \subseteq 0..15
    /\ (call = "poll" /\ ident \in {23, 24, 25, 144, 147}) => err = "ok"

\* C5 (as claimed): construction succeeds and the LED buffer has exactly
\* rows rows of cols cells, initially and after every command.
C5_BufferIsRowsByCols ==
    /\ constructed
    /\ Len(leds) = rows
    /\ \A y \in 1..Len(leds) : Len(leds[y]) = cols

\* The payload length the command table lists for each opcode.
PayloadLen(op) ==
    CASE op \in {0, 1, 3, 5, 15, 18, 19} -> 0
      [] op \in {23, 25, 81, 82} -> 1
      [] op \in {6, 8, 16, 17, 32, 33, 80, 145} -> 2
      [] op \in {4, 21, 22, 24, 144} -> 3
      [] op = 147 -> 4
      [] op \in {27, 28} -> 6
      [] op = 20 -> 10
      [] op = 2 -> 32
      [] op = 146 -> 33
      [] op = 26 -> 34

\* C6 (as claimed): a dispatcher step on an opcode of the command table
\* consumes the opcode byte plus exactly the payload length the table lists
\* for it, so that the next byte read is the next command's opcode.
C6_ConsumesListedLength ==
    [][(OpcodeRead /\ ident' \in TableOpcodes)
          => Len(rx) - Len(rx') = 1 + PayloadLen(ident')]_vars

\* C7 (as claimed): a single-cell LED command (0x10, 0x11, 0x18) whose x, y
\* lie outside the configured extent completes without error and changes no
\* cell.
C7_OutOfRangeRejected ==
    [][(OpcodeRead /\ ident' \in {16, 17, 24} /\ Len(rx) >= 3
          /\ (rx[2] >= cols \/ rx[3] >= rows))
          => (err' = "ok" /\ leds' = leds)]_vars

\* C8: when the opcode byte read is not an opcode of the command table
\* (the tilt opcodes 0x80/0x81 included), the step consumes only that byte,
\* writes nothing, raises nothing and leaves device state, LED buffer and
\* both queues unchanged.
C8_UnknownOpcodeIgnored ==
    [][(OpcodeRead /\ ident' \notin TableOpcodes)
          => /\ rx' = Tail(rx)
             /\ tx' = <<>>
             /\ err' = "ok"
             /\ UNCHANGED <<devVars, queueVars, histVars>>]_vars

\* C8 witness: the tilt opcode 0x80 was read and ignored while a device id
\* set earlier is still in place.
C8_Witness ==
    /\ call = "poll"
    /\ ident = 128
    /\ err = "ok"
    /\ idField = IdField(MyDevice)

TruncPad32(b) ==
    IF Len(b) >= 32 THEN SubSeq(b, 1, 32) ELSE b \o Repeat(0, 32 - Len(b))

C10_IdResponseIs33Bytes ==
    (call = "poll" /\ ident = 1)
        => /\ err = "ok"
           /\ Len(tx) = 33
           /\ tx = <<1>> \o TruncPad32(Utf8Encode(device_id))

\* The positions of a ring that arc range covers: [s, e) when s < e,
\* otherwise [s, 64) and [0, e).
ArcSegment(s, e) == IF s < e THEN s..(e - 1) ELSE (s..63) \cup (0..(e - 1))

\* C11 (as claimed): an arc range command (0x93) with ring r, start s and end
\* e in 0..63 and level v completes, sets exactly the positions of ring r in
\* ArcSegment(s, e) to v and leaves every other position and ring unchanged.
C11_ArcRangeSetsSegment ==
    [][(OpcodeRead /\ ident' = 147 /\ Len(rx) >= 5
          /\ rx[3] \in 0..63 /\ rx[4] \in 0..63)
          => /\ err' = "ok"
             /\ Len(leds') = Len(leds)
             /\ Len(leds') > rx[2]
             /\ \A i \in 1..Len(leds') : Len(leds'[i]) = Len(leds[i])
             /\ Len(leds'[rx[2] + 1]) = 64
             /\ \A i \in 1..Len(leds') : \A p \in 1..Len(leds'[i]) :
                   leds'[i][p] =
                      IF i = rx[2] + 1 /\ (p - 1) \in ArcSegment(rx[3], rx[4])
                      THEN rx[5] ELSE leds[i][p]]_vars

\* Bit i of the byte b.
Bit(b, i) == (b \div (2 ^ i)) % 2

\* C12 (as claimed): a led map command (0x14) with payload x, y, b0..b7
\* completes and, with the origin (x & 0xF8, y & 0xF8), sets cell
\* (origin x + i, origin y + j) to the current brightness when bit i of bj is
\* 1 and to 0 when it is 0, for j, i in 0..7; every cell outside that 8x8
\* block is unchanged.
C12_LedMapSetsBlock ==
    [][(OpcodeRead /\ ident' = 20 /\ Len(rx) >= 11)
          => LET ox == (rx[2] \div 8) * 8
                 oy == (rx[3] \div 8) * 8
             IN  /\ err' = "ok"
                 /\ Len(leds') = Len(leds)
                 /\ \A r \in 1..Len(leds') : Len(leds'[r]) = Len(leds[r])
                 /\ Len(leds') >= oy + 8
                 /\ \A j \in 1..8 : Len(leds'[oy + j]) >= ox + 8
                 /\ \A r \in 1..Len(leds') : \A c \in 1..Len(leds'[r]) :
                       leds'[r][c] =
                          IF r - 1 \in oy..(oy + 7) /\ c - 1 \in ox..(ox + 7)
                          THEN (IF Bit(rx[4 + (r - 1 - oy)], c - 1 - ox) = 1
                                THEN brightness ELSE 0)
                          ELSE leds[r][c]]_vars

\* The intensity that nibble-pair decoding gives position k of the addressed
\* cells: the high nibble of byte k \div 2 for an even k, its low nibble for
\* an odd k, 0 when the nibble is not above vari_mono_thresh.
NibbleAt(bytes, k) ==
    LET B == bytes[(k \div 2) + 1]
        v == IF k % 2 = 0 THEN B \div 16 ELSE B % 16
    IN  IF v <= vari_mono_thresh THEN 0 ELSE v

\* The cell <<row, col>> (from 0) of position k of the cells that the level
\* map (0x1A), level row (0x1B), level col (0x1C) and arc map (0x92)
\* commands address, and the number of such positions.
NibbleCell(op, a, b, k) ==
    CASE op = 26 -> <<(b \div 8) * 8 + (k \div 8), (a \div 8) * 8 + (k % 8)>>
      [] op = 27 -> <<(b \div 8) * 8, (a \div 8) * 8 + k>>
      [] op = 28 -> <<(b \div 8) * 8 + k, (a \div 8) * 8>>
      [] op = 146 -> <<a, k>>

NibbleCount(op) == IF op \in {26, 146} THEN 64 ELSE 8

\* C13 (as claimed): the level map, level row, level col and arc map commands
\* complete and store, at position k of the cells they address, the nibble
\* k of their packed payload (0xAB gives 0xA then 0xB), clamped to 0 when it
\* is not above vari_mono_thresh.
C13_NibblePairsDecoded ==
    [][(OpcodeRead /\ ident' \in {26, 27, 28, 146}
          /\ Len(rx) >= 1 + PayloadLen(ident'))
          => LET op == ident'
                 packed == IF op = 146 THEN SubSeq(rx, 3, Len(rx))
                           ELSE SubSeq(rx, 4, Len(rx))
             IN  /\ err' = "ok"
                 /\ \A k \in 0..(NibbleCount(op) - 1) :
                       LET c == NibbleCell(op, rx[2], rx[3], k)
                       IN  /\ Len(leds') > c[1]
                           /\ Len(leds'[c[1] + 1]) > c[2]
                           /\ leds'[c[1] + 1][c[2] + 1] = NibbleAt(packed, k)
             ]_vars

\* C14 (as claimed): on a device configured with rows and cols, for every
\* (x, y) within them and every level in 0..15, set_grid_led(x, y, level)
\* makes cell [y][x] read back as level and changes no other cell.
C14_SetGridLedReadsBack ==
    (rows >= 1 /\ cols >= 1)
        => /\ constructed
           /\ \A x \in 0..(cols - 1), y \in 0..(rows - 1), level \in 0..15 :
                 LET m == set_grid_led(Self, x, y, level)
                 IN  /\ Ok(m)
                     /\ Len(m.leds) = Len(leds)
                     /\ \A r \in 1..Len(leds) : \A c \in 1..Len(leds[r]) :
                           m.leds[r][c] = IF r = y + 1 /\ c = x + 1
                                          THEN level ELSE leds[r][c]

C16_PollChecksConnection ==
    [][(call' = "poll" /\ (~connected \/ Len(rx) = 0))
          => /\ rx' = rx
             /\ tx' = <<>>
             /\ UNCHANGED <<devVars, queueVars, histVars>>]_vars

\* C17: no step changes rows, cols or encoders; the set grid offset (0x04),
\* set grid size (0x06) and set address (0x08) commands consume their payload
\* and change neither device state, LED buffer nor queues, and write
\* nothing; a command changes device_id only when it is set id (0x02); get
\* grid size (0x05) answers [0x03, cols, rows] and get grid offset (0x03)
\* answers [0x02, 1, 0, 0].
C17_ConfigurationFixed ==
    [][/\ rows' = rows
       /\ cols' = cols
       /\ encoders' = encoders
       /\ (OpcodeRead /\ ident' \in {4, 6, 8})
            => /\ err' = "ok"
               /\ Len(rx) - Len(rx') = 1 + PayloadLen(ident')
               /\ tx' = <<>>
               /\ UNCHANGED <<devVars, queueVars, histVars>>
       /\ (call' = "poll" /\ device_id' # device_id) => ident' = 2
       /\ (OpcodeRead /\ ident' = 5)
            => (err' = "ok" /\ tx' = <<3, cols, rows>>)
       /\ (OpcodeRead /\ ident' = 3)
            => (err' = "ok" /\ tx' = <<2, 1, 0, 0>>)]_vars

\* C17 witness: get grid size answered [0x03, 0, 1] on the device built with
\* rows = 1 and cols = 0, after a set id command had changed device_id.
C17_Witness ==
    /\ call = "poll"
    /\ ident = 5
    /\ tx = <<3, 0, 1>>
    /\ rows = 1
    /\ idField = IdField(MyDevice)

\* The event an input command carries: 0x20/0x21 x y, 0x50 index delta,
\* 0x51/0x52 index.
KeyEvent(cmd) ==
    CASE cmd[1] = 32 -> MonomeGridEvent(cmd[2], cmd[3], FALSE)
      [] cmd[1] = 33 -> MonomeGridEvent(cmd[2], cmd[3], TRUE)
      [] cmd[1] = 80 -> MonomeArcTurnEvent(cmd[2], cmd[3])
      [] cmd[1] = 81 -> MonomeArcPressEvent(cmd[2], FALSE)
      [] cmd[1] = 82 -> MonomeArcPressEvent(cmd[2], TRUE)

\* C18: an input command (0x20, 0x21, 0x50, 0x51, 0x52) consumes its opcode
\* and payload, appends exactly the event it carries at the back of the
\* matching queue, leaves the other queue, the LED buffer and the device
\* state unchanged and writes nothing.
C18_InputAppendsOneEvent ==
    [][(OpcodeRead /\ ident' \in KeyOpcodes
          /\ Len(rx) >= 1 + PayloadLen(ident'))
          => /\ err' = "ok"
             /\ rx' = SubSeq(rx, 2 + PayloadLen(ident'), Len(rx))
             /\ tx' = <<>>
             /\ UNCHANGED devVars
             /\ IF ident' \in {32, 33}
                THEN /\ grid_events' = Append(grid_events, KeyEvent(rx))
                     /\ arc_events' = arc_events
                ELSE /\ arc_events' = Append(arc_events, KeyEvent(rx))
                     /\ grid_events' = grid_events]_vars

\* C18 witness: key down (0x21 2 3), then key up (0x20 2 3) were dispatched
\* and wait in the grid queue in that order; the arc queue is empty and
\* nothing was written.
C18_Witness ==
    /\ call = "poll"
    /\ ident = 32
    /\ err = "ok"
    /\ grid_events = <<MonomeGridEvent(2, 3, TRUE),
                       MonomeGridEvent(2, 3, FALSE)>>
    /\ arc_events = <<>>
    /\ tx = <<>>

\* C19 (as claimed): only led intensity (0x17) replaces the brightness and it
\* changes no cell; led on (0x11) completes and stores the brightness current
\* at that time in its cell, and led all on (0x13) completes and stores it in
\* every cell.
C19_BrightnessAtWriteTime ==
    [][/\ brightness' # brightness => (OpcodeRead /\ ident' = 23)
       /\ (OpcodeRead /\ ident' = 23) => leds' = leds
       /\ (OpcodeRead /\ ident' = 19)
            => (err' = "ok" /\ AllLeds' \subseteq {brightness})
       /\ (OpcodeRead /\ ident' = 17 /\ Len(rx) >= 3)
            => /\ err' = "ok"
               /\ Len(leds') > rx[3]
               /\ Len(leds'[rx[3] + 1]) > rx[2]
               /\ leds'[rx[3] + 1][rx[2] + 1] = brightness]_vars

\* C20 (as claimed): an arc led all command (0x91) with ring r and any level
\* completes, leaves the 64 positions of ring r at 0 and every other ring
\* unchanged.
C20_ArcAllZeroesRing ==
    [][(OpcodeRead /\ ident' = 145 /\ Len(rx) >= 3)
          => /\ err' = "ok"
             /\ Len(leds') = Len(leds)
             /\ Len(leds') > rx[2]
             /\ \A i \in 1..Len(leds') :
                   leds'[i] = IF i = rx[2] + 1 THEN [p \in 1..64 |-> 0]
                              ELSE leds[i]]_vars

====
